---- MODULE Spec2Model ----
(***************************************************************************)
(* saftbar: monitor-region resolution, the colour/graphics-context cache   *)
(* and the content layout engine of the status bar.                        *)
(*                                                                         *)
(* Six specifications share the variables below:                           *)
(*   SpecResolver  the region resolver applied to lists of rectangles      *)
(*   SpecPack      the pixel packing of cache_color applied to RGBA values *)
(*   SpecShape     cursor_offset and shape_polys applied to shape items    *)
(*   Spec          a Bar: construction, draw, clear_monitors, present,     *)
(*                 flush, on a backend that accepts every request          *)
(*   SpecPipeline  pipeline_requests on a backend that rejects requests    *)
(*   SpecLoop      the redraw loop of the interactive example with         *)
(*                 next_x_event (FairSpecLoop adds the scheduling)         *)
(***************************************************************************)
EXTENDS Integers, Sequences, FiniteSets, TLC

VARIABLES
    pc,            \* position of the program: "start", "resolved", "packed",
                   \* "ready", "called", "panicked"
    regions,       \* Vec<Rectangle> the display provider reports
    valid_regions, \* the filtered and sorted regions
    rgba,          \* SpecPack: the colour handed to cache_color
    pixel,         \* SpecPack: the Foreground value of the created context
    overflow_checks, \* build profile: TRUE = arithmetic overflow panics
    font,          \* Bar.font (ascent, descent, advance)
    height,        \* Bar.height
    monitors,      \* Bar.monitors
    color_gcs,     \* Bar.color_gcs : RGBA -> Gcontext
    clear_gc,      \* Bar.clear_gc (0 before construction)
    next_id,       \* the connection's generate_id counter
    gc_values,     \* server side: Gcontext -> Foreground pixel
    ensured,       \* the colours cache_color has been called with so far
    requests,      \* requests issued by the operation last called, in order
    call,          \* the operation last called and its arguments
    panic,         \* the panic message of an aborted process ("" if none)
    previous,      \* the requests of the call before, when draw is repeated
    shape_args,    \* SpecShape: bar height, offset and the shape of the item
    polygons,      \* SpecShape: the polygons shape_polys returned
    item_width,    \* SpecShape: the width cursor_offset returned
    backend_rejects, \* SpecPipeline: the cookies whose request the server rejects
    cookies,       \* SpecPipeline: the cookies collected while sending
    checked,       \* SpecPipeline: the cookies checked so far, in order
    failed,        \* SpecPipeline: the data the panic message shows
    redraw,        \* SpecLoop: the redraw flag of main
    history,       \* SpecLoop: the calls on the bar since the last redraw began
    arrived,       \* SpecLoop: every event the server has sent, in order
    pending,       \* SpecLoop: the events sent and not yet polled
    delivered      \* SpecLoop: the events next_x_event has returned, in order

vars == << pc, regions, valid_regions, rgba, pixel, overflow_checks, font,
           height, monitors, color_gcs, clear_gc, next_id, gc_values,
           ensured, requests, call, panic, previous, shape_args, polygons,
           item_width, backend_rejects, cookies, checked, failed, redraw,
           history, arrived, pending, delivered >>

pipelineVars == << backend_rejects, cookies, checked, failed >>

loopVars == << redraw, history, arrived, pending, delivered >>

barVars == << overflow_checks, font, height, monitors, color_gcs, clear_gc,
              next_id, gc_values, ensured, requests, call, panic, previous,
              shape_args, polygons, item_width, pipelineVars, loopVars >>

(***************************************************************************)
(* Bounds of the model.                                                    *)
(***************************************************************************)
MaxCoord == 2     \* rectangles of SpecResolver lie in [0, MaxCoord]^2
MaxRects == 3     \* longest region list of SpecResolver
MaxItems == 2     \* longest item list handed to draw

I16Max == 32767   \* i16::MAX, the largest x or y of a protocol rectangle
U16Max == 65535   \* u16::MAX, the largest width or height of one
I32Max == 2147483647   \* c_int's maximum, the largest x or y Xft accepts

(***************************************************************************)
(* Rectangles.                                                             *)
(***************************************************************************)
Rect(x, y, w, h) == [x |-> x, y |-> y, w |-> w, h |-> h]

\* Variant of is_inside with a strict left edge.
IsInsideStrictX(self, rect) ==
    /\ self.x > rect.x
    /\ self.x + self.w <= rect.x + rect.w
    /\ self.y >= rect.y
    /\ self.y + self.h <= rect.y + rect.h

\* Rectangle::is_inside
IsInside(self, rect) ==
    /\ self.x >= rect.x
    /\ self.x + self.w <= rect.x + rect.w
    /\ self.y >= rect.y
    /\ self.y + self.h <= rect.y + rect.h

\* Ord::cmp on integers
Cmp(m, n) == IF m < n THEN "Less" ELSE IF m = n THEN "Equal" ELSE "Greater"

\* Variant of compare_rectangles ordering x right to left.
CompareRectanglesDescending(a, b) ==
    IF a.x = b.x THEN Cmp(a.y + a.h, b.y) ELSE Cmp(b.x, a.x)

\* compare_rectangles
CompareRectangles(a, b) ==
    IF a.x = b.x THEN Cmp(a.y + a.h, b.y) ELSE Cmp(a.x, b.x)

\* One insertion of slice::sort_by.  On a slice of at most 20 elements the
\* standard library sorts by insertion: `tail` moves left past every element
\* it compares Less than.  compare_rectangles is no consistent order, so the
\* result depends on this procedure and not only on the comparator.
RECURSIVE InsertTail(_, _)
InsertTail(sorted, tail) ==
    IF sorted = << >> THEN << tail >>
    ELSE LET last == sorted[Len(sorted)]
         IN  IF CompareRectangles(tail, last) = "Less"
             THEN Append(InsertTail(SubSeq(sorted, 1, Len(sorted) - 1), tail), last)
             ELSE Append(sorted, tail)

\* valid_regions.sort_by(compare_rectangles)
RECURSIVE SortBy(_)
SortBy(v) ==
    IF v = << >> THEN << >>
    ELSE InsertTail(SortBy(SubSeq(v, 1, Len(v) - 1)), v[Len(v)])

\* The filter predicate: the rectangle at `index` is inside no other entry.
Keeps(rs, index) ==
    \A index_other \in 1..Len(rs) :
        index = index_other \/ ~IsInside(rs[index], rs[index_other])

RECURSIVE FilterRegions(_, _)
FilterRegions(rs, index) ==
    IF index > Len(rs) THEN << >>
    ELSE (IF Keeps(rs, index) THEN << rs[index] >> ELSE << >>)
         \o FilterRegions(rs, index + 1)

\* Filter and sort crtc regions.
QueryValidCrtcRegions(rs) == SortBy(FilterRegions(rs, 1))

(***************************************************************************)
(* SpecResolver: the resolver applied to every list of at most MaxRects    *)
(* rectangles of the grid, and to the documented three-rectangle scenario. *)
(***************************************************************************)
GridRects ==
    { r \in [x : 0..MaxCoord, y : 0..MaxCoord, w : 1..MaxCoord, h : 1..MaxCoord] :
        r.x + r.w <= MaxCoord /\ r.y + r.h <= MaxCoord }

ScenarioRects == { Rect(0, 0, 100, 100), Rect(0, 0, 200, 200), Rect(300, 0, 50, 50) }

ScenarioLists ==
    { s \in [1..3 -> ScenarioRects] : \A i, j \in 1..3 : i # j => s[i] # s[j] }

\* No call precedes, and no shape is being measured.
NoPrevious == [repeated |-> FALSE, requests |-> << >>]

NoShape == [h |-> 0, xl |-> 0, style |-> "none", direction |-> "none", fill |-> "none"]

\* No batch is being pipelined, and no application loop runs.
PipelineUnused ==
    /\ backend_rejects = { }
    /\ cookies = << >>
    /\ checked = << >>
    /\ failed = "none"

LoopUnused ==
    /\ redraw = FALSE
    /\ history = << >>
    /\ arrived = << >>
    /\ pending = << >>
    /\ delivered = << >>

BarUnused ==
    /\ overflow_checks = TRUE
    /\ font = [ascent |-> 0, descent |-> 0, advance |-> 0]
    /\ height = 0
    /\ monitors = << >>
    /\ color_gcs = << >>
    /\ clear_gc = 0
    /\ next_id = 0
    /\ gc_values = << >>
    /\ ensured = { }
    /\ requests = << >>
    /\ call = [op |-> "none"]
    /\ panic = ""
    /\ previous = NoPrevious
    /\ shape_args = NoShape
    /\ polygons = << >>
    /\ item_width = 0
    /\ PipelineUnused
    /\ LoopUnused

InitResolver ==
    /\ pc = "start"
    /\ regions \in { << >> } \cup ScenarioLists
    /\ valid_regions = << >>
    /\ rgba = << 0, 0, 0, 0 >>
    /\ pixel = << 0, 0, 0, 0 >>
    /\ BarUnused

\* Get output regions: one more connected output reports its rectangle.
PushRegion ==
    /\ pc = "start"
    /\ Len(regions) < MaxRects
    /\ regions \in Seq(GridRects)
    /\ \E r \in GridRects : regions' = Append(regions, r)
    /\ UNCHANGED << pc, valid_regions, rgba, pixel, barVars >>

Resolve ==
    /\ pc = "start"
    /\ valid_regions' = QueryValidCrtcRegions(regions)
    /\ pc' = "resolved"
    /\ UNCHANGED << regions, rgba, pixel, barVars >>

NextResolver == PushRegion \/ Resolve

SpecResolver == InitResolver /\ [][NextResolver]_vars

(***************************************************************************)
(* 32-bit unsigned words, as bit vectors: bit 0 is the least significant.  *)
(* A pixel value is read back as its four bytes, most significant first.   *)
(***************************************************************************)
\* u32::from(u8)
U32FromU8(v) == [i \in 0..31 |-> IF i < 8 THEN (v \div (2 ^ i)) % 2 ELSE 0]

\* <<
Shl(word, n) == [i \in 0..31 |-> IF i >= n THEN word[i - n] ELSE 0]

\* |
BitOr(v, w) == [i \in 0..31 |-> IF v[i] = 1 \/ w[i] = 1 THEN 1 ELSE 0]

Byte(word, k) ==
    word[8 * k] + 2 * word[8 * k + 1] + 4 * word[8 * k + 2] + 8 * word[8 * k + 3]
    + 16 * word[8 * k + 4] + 32 * word[8 * k + 5] + 64 * word[8 * k + 6]
    + 128 * word[8 * k + 7]

Bytes(word) == << Byte(word, 3), Byte(word, 2), Byte(word, 1), Byte(word, 0) >>

\* Variant of the packing with the red and blue channels exchanged.
PackColorSwapped(c) ==
    LET r == U32FromU8(c[1])
        g == U32FromU8(c[2])
        b == U32FromU8(c[3])
        a == U32FromU8(c[4])
    IN  Bytes(BitOr(BitOr(BitOr(r, Shl(g, 8)), Shl(b, 16)), Shl(a, 24)))

\* cache_color: let color = b | g << 8 | r << 16 | a << 24;
PackColor(c) ==
    LET r == U32FromU8(c[1])
        g == U32FromU8(c[2])
        b == U32FromU8(c[3])
        a == U32FromU8(c[4])
    IN  Bytes(BitOr(BitOr(BitOr(b, Shl(g, 8)), Shl(r, 16)), Shl(a, 24)))

(***************************************************************************)
(* SpecPack: the packing applied to RGBA values over sample channel values.*)
(***************************************************************************)
Channels == { 0, 1, 128, 255 }

PackInputs == Channels \X Channels \X Channels \X Channels

InitPack ==
    /\ pc = "start"
    /\ regions = << >>
    /\ valid_regions = << >>
    /\ rgba \in PackInputs
    /\ pixel = << 0, 0, 0, 0 >>
    /\ BarUnused

Pack ==
    /\ pc = "start"
    /\ pixel' = PackColor(rgba)
    /\ pc' = "packed"
    /\ UNCHANGED << regions, valid_regions, rgba, barVars >>

NextPack == Pack

SpecPack == InitPack /\ [][NextPack]_vars

(***************************************************************************)
(* The Bar: content items, fonts and text measurement.                     *)
(***************************************************************************)
Red == << 255, 0, 0, 255 >>
Blue == << 0, 0, 255, 255 >>
Black == << 0, 0, 0, 255 >>

Colors == { Red, Blue, Black }

Alignments == { "Left", "Center", "Right" }

\* ContentShape::Text and ContentShape::Powerline
Text(text) == [kind |-> "Text", text |-> text]

Powerline(style, fill, direction) ==
    [kind |-> "Powerline", style |-> style, fill |-> fill, direction |-> direction]

ContentItem(fg, bg, shape) == [fg |-> fg, bg |-> bg, shape |-> shape]

\* The fonts Xft may load: ascent and descent in pixels, and the advance of
\* one character (the font is monospaced).
Fonts ==
    { [ascent |-> 15, descent |-> 5, advance |-> 10],
      [ascent |-> 4, descent |-> 1, advance |-> 2] }

\* Font::asc_and_desc
AscAndDesc(f) == f.ascent + f.descent

TextLen(text) ==
    CASE text = "" -> 0
      [] text = "AB" -> 2
      [] text = "ABCDE" -> 5

\* Xft::string_cursor_offset: the xOff extent of the rendered run
StringCursorOffset(text, f) == TextLen(text) * f.advance

\* Xft::create_color: the XRenderColor allocated for an RGBA value
CreateColor(c) == << c[1] * 256, c[2] * 256, c[3] * 256, c[4] * 256 >>

\* Variant of cursor_offset in which a Left shape is narrower.
CursorOffsetByDirection(h, f, item) ==
    IF item.shape.kind = "Text" THEN StringCursorOffset(item.shape.text, f)
    ELSE IF item.shape.direction = "Left" THEN h \div 2
    ELSE (h + 1) \div 2

\* Variant of cursor_offset with a quarter of the height for every shape.
CursorOffsetQuarter(h, f, item) ==
    IF item.shape.kind = "Text" THEN StringCursorOffset(item.shape.text, f)
    ELSE h \div 4 + 1

\* Bar::cursor_offset
CursorOffset(h, f, item) ==
    IF item.shape.kind = "Text" THEN StringCursorOffset(item.shape.text, f)
    ELSE (h + 1) \div 2

\* Bar::shape_powerline
ShapePowerline(h, xl, direction, fill) ==
    LET h_2 == h \div 2
        w == (h + 1) \div 2
        xr == xl + w
        yt == 0
        yb == h
    IN  CASE direction = "Left" /\ fill = "Full" ->
               << << << xl, yt + h_2 >>, << xl, yb - h_2 - 1 >>, << xr, yb >>,
                     << xr, yt >>, << xr - 1, yt >> >> >>
          [] direction = "Right" /\ fill = "Full" ->
               << << << xl, yb >>, << xr, yb - h_2 - 1 >>, << xr, yt + h_2 >>,
                     << xl + 1, yt >>, << xl, yt >> >> >>
          [] direction = "Left" /\ fill = "No" ->
               << << << xl, yt + h_2 >>, << xl, yt + h_2 + 1 >>, << xr, yt >>,
                     << xr - 1, yt >> >>,
                  << << xl, yb - h_2 - 1 >>, << xr, yb >>, << xr, yb - 1 >>,
                     << xl + 1, yb - h_2 - 1 >> >> >>
          [] direction = "Right" /\ fill = "No" ->
               << << << xl, yt >>, << xr, yt + h_2 + 1 >>, << xr, yt + h_2 >>,
                     << xl + 1, yt >> >>,
                  << << xl, yb >>, << xr, yb - h_2 - 1 >>, << xr - 1, yb - h_2 - 1 >>,
                     << xl, yb - 1 >> >> >>

\* Bar::shape_octagon
ShapeOctagon(h, xl0, direction, fill) ==
    LET h_4 == h \div 4
        yt == 0
        yb == h
    IN  IF direction = "Right"
        THEN LET xl == xl0
                 xr == xl + h_4 + 1
             IN  IF fill = "Full"
                 THEN << << << xl, yb >>, << xr, yb - h_4 - 1 >>, << xr, yt + h_4 >>,
                            << xl + 1, yt >>, << xl, yt >> >> >>
                 ELSE << << << xl, yt >>, << xr, yt + h_4 + 1 >>, << xr, yt + h_4 >>,
                            << xl + 1, yt >> >>,
                         << << xr - 1, yt + h_4 >>, << xr - 1, yb - h_4 >>,
                            << xr, yb - h_4 >>, << xr, yt + h_4 >> >>,
                         << << xl, yb >>, << xr, yb - h_4 - 1 >>,
                            << xr - 1, yb - h_4 - 1 >>, << xl, yb - 1 >> >> >>
        ELSE LET w == (h + 1) \div 2
                 xr == xl0 + w
                 xl == xr - h_4 - 1
             IN  IF fill = "Full"
                 THEN << << << xl, yt + h_4 >>, << xl, yb - h_4 - 1 >>, << xr, yb >>,
                            << xr, yt >>, << xr - 1, yt >> >> >>
                 ELSE << << << xl, yt + h_4 >>, << xl, yt + h_4 + 1 >>, << xr, yt >>,
                            << xr - 1, yt >> >>,
                         << << xl, yt + h_4 >>, << xl, yb - h_4 >>,
                            << xl + 1, yb - h_4 >>, << xl + 1, yt + h_4 >> >>,
                         << << xl, yb - h_4 - 1 >>, << xr, yb >>, << xr, yb - 1 >>,
                            << xl + 1, yb - h_4 - 1 >> >> >>

\* Variant of shape_polys that draws every style as Octagon.
ShapePolysAllOctagon(h, xl, style, direction, fill) ==
    ShapeOctagon(h, xl, direction, fill)

\* Variant of shape_polys that draws every style as Powerline.
ShapePolysAllPowerline(h, xl, style, direction, fill) ==
    ShapePowerline(h, xl, direction, fill)

\* Variant of shape_polys that anchors the Powerline style at the origin.
ShapePolysFromOrigin(h, xl, style, direction, fill) ==
    IF style = "Powerline" THEN ShapePowerline(h, 0, direction, fill)
    ELSE ShapeOctagon(h, xl, direction, fill)

\* Variant of shape_polys that ignores the direction of the Powerline style.
ShapePolysRightOnly(h, xl, style, direction, fill) ==
    IF style = "Powerline" THEN ShapePowerline(h, xl, "Right", fill)
    ELSE ShapeOctagon(h, xl, direction, fill)

\* Bar::shape_polys
ShapePolys(h, xl, style, direction, fill) ==
    IF style = "Powerline" THEN ShapePowerline(h, xl, direction, fill)
    ELSE ShapeOctagon(h, xl, direction, fill)

(***************************************************************************)
(* SpecShape: cursor_offset and shape_polys applied to a shape item of     *)
(* every style, fill and direction, for the bar heights 1..MaxHeight and   *)
(* sample cursor offsets.  For a height of at least 1 no subtraction of    *)
(* the shape functions goes below zero, and the offsets stay below the     *)
(* i16::MAX that fill_rects enforces on the cursor before a shape is       *)
(* computed, so that no addition exceeds the u32 range.                    *)
(***************************************************************************)
MaxHeight == 200

Styles == { "Powerline", "Octagon" }
Fills == { "Full", "No" }
Directions == { "Left", "Right" }

Offsets == { 0, 1, 20, 999 }

ShapeInputs ==
    [h : 1..MaxHeight, xl : Offsets, style : Styles, direction : Directions,
     fill : Fills]

\* The shape item the arguments describe; colours do not enter the geometry
ShapeItem(a) == ContentItem(Black, Red, Powerline(a.style, a.fill, a.direction))

InitShape ==
    /\ pc = "start"
    /\ regions = << >>
    /\ valid_regions = << >>
    /\ rgba = << 0, 0, 0, 0 >>
    /\ pixel = << 0, 0, 0, 0 >>
    /\ overflow_checks = TRUE
    /\ font = [ascent |-> 0, descent |-> 0, advance |-> 0]
    /\ height = 0
    /\ monitors = << >>
    /\ color_gcs = << >>
    /\ clear_gc = 0
    /\ next_id = 0
    /\ gc_values = << >>
    /\ ensured = { }
    /\ requests = << >>
    /\ call = [op |-> "none"]
    /\ panic = ""
    /\ previous = NoPrevious
    /\ shape_args \in ShapeInputs
    /\ polygons = << >>
    /\ item_width = 0
    /\ PipelineUnused
    /\ LoopUnused

\* The width of the item is measured (as draw does for every item first).
MeasureShape ==
    /\ pc = "start"
    /\ item_width' = CursorOffset(shape_args.h, font, ShapeItem(shape_args))
    /\ pc' = "measured"
    /\ UNCHANGED << regions, valid_regions, rgba, pixel, overflow_checks, font,
                    height, monitors, color_gcs, clear_gc, next_id, gc_values,
                    ensured, requests, call, panic, previous, shape_args, polygons,
                    pipelineVars, loopVars >>

\* The polygons of the item are computed at the offset.
ShapeItemPolys ==
    /\ pc = "measured"
    /\ polygons' = ShapePolys(shape_args.h, shape_args.xl, shape_args.style,
                              shape_args.direction, shape_args.fill)
    /\ pc' = "shaped"
    /\ UNCHANGED << regions, valid_regions, rgba, pixel, overflow_checks, font,
                    height, monitors, color_gcs, clear_gc, next_id, gc_values,
                    ensured, requests, call, panic, previous, shape_args,
                    item_width, pipelineVars, loopVars >>

NextShape == MeasureShape \/ ShapeItemPolys

SpecShape == InitShape /\ [][NextShape]_vars

(***************************************************************************)
(* Requests, in the order the connection receives them.                    *)
(***************************************************************************)
Window(id) == [drawable |-> "Window", id |-> id]
Pixmap(id) == [drawable |-> "Pixmap", id |-> id]

CreateColormapReq(mid) == [op |-> "CreateColormap", mid |-> mid]

CreateWindowReq(wid, x, y, w, h) ==
    [op |-> "CreateWindow", wid |-> wid, x |-> x, y |-> y, width |-> w, height |-> h]

CreatePixmapReq(pid, window, w, h) ==
    [op |-> "CreatePixmap", pid |-> pid, drawable |-> Window(window),
     width |-> w, height |-> h]

InternAtomReq(name) == [op |-> "InternAtom", name |-> name]

ChangePropertyReq(window, property, data) ==
    [op |-> "ChangeProperty", window |-> window, property |-> property, data |-> data]

CreateGcReq(cid, drawable, foreground) ==
    [op |-> "CreateGc", cid |-> cid, drawable |-> drawable, foreground |-> foreground]

MapWindowReq(window) == [op |-> "MapWindow", window |-> window]

PolyFillRectangleReq(rect) ==
    [op |-> "PolyFillRectangle", drawable |-> rect.drawable, gc |-> rect.gc,
     x |-> rect.x, y |-> rect.y, width |-> rect.w, height |-> rect.h]

FillPolyReq(poly) ==
    [op |-> "FillPoly", drawable |-> poly.drawable, gc |-> poly.gc,
     points |-> poly.points]

CopyAreaReq(area) ==
    [op |-> "CopyArea", src_drawable |-> Pixmap(area.pixmap),
     dst_drawable |-> Window(area.window), gc |-> area.gc, src_x |-> 0, src_y |-> 0,
     dst_x |-> 0, dst_y |-> 0, width |-> area.w, height |-> area.h]

DrawStringReq(text, draw, color, x, y) ==
    [op |-> "XftDrawStringUtf8", text |-> text, draw |-> draw, color |-> color,
     x |-> x, y |-> y]

FlushReq == [op |-> "Flush"]

\* The structs of setup.rs holding the data of a pipelined request
FillRect(drawable, gc, x, y, w, h) ==
    [drawable |-> drawable, gc |-> gc, x |-> x, y |-> y, w |-> w, h |-> h]

FillPoly(drawable, gc, points) == [drawable |-> drawable, gc |-> gc, points |-> points]

CopyArea(pixmap, window, gc, w, h) ==
    [pixmap |-> pixmap, window |-> window, gc |-> gc, w |-> w, h |-> h]

(***************************************************************************)
(* The operations of a Bar, as functions of the bar's state.  A bar state  *)
(* b holds the fields the operations read or write, the requests issued so *)
(* far by the operation in progress, and the panic that aborted it.        *)
(***************************************************************************)
Panicked(b, message) == [b EXCEPT !.panic = message]

Issue(b, request) == [b EXCEPT !.requests = Append(@, request)]

\* Setup::create_gc
CreateGc(b, drawable, foreground) ==
    LET cid == b.next_id
    IN  [b EXCEPT !.next_id = cid + 1,
                  !.gc_values = (cid :> foreground) @@ @,
                  !.requests = Append(@, CreateGcReq(cid, drawable, foreground))]

\* Variant of cache_color without the presence test.
CacheColorAlways(b, drawable, c) ==
    LET made == CreateGc(b, drawable, PackColor(c))
    IN  [made EXCEPT !.color_gcs = (c :> b.next_id) @@ @,
                     !.ensured = @ \cup { c }]

\* Bar::cache_color
CacheColor(b, drawable, c) ==
    IF c \in DOMAIN b.color_gcs
    THEN [b EXCEPT !.ensured = @ \cup { c }]
    ELSE LET made == CreateGc(b, drawable, PackColor(c))
         IN  [made EXCEPT !.color_gcs = (c :> b.next_id) @@ @,
                          !.ensured = @ \cup { c }]

RECURSIVE CacheColorsFrom(_, _, _, _)
CacheColorsFrom(b, drawable, texts, i) ==
    IF i > Len(texts) THEN b
    ELSE CacheColorsFrom(CacheColor(b, drawable, texts[i].bg), drawable, texts, i + 1)

\* Variant of cache_colors that ensures the first item only.
CacheColorsFirstOnly(b, monitor_index, texts) ==
    IF monitor_index >= Len(b.monitors)
    THEN Panicked(b, "index out of bounds")
    ELSE CacheColorsFrom(b, Pixmap(b.monitors[monitor_index + 1].pixmap),
                         IF texts = << >> THEN texts ELSE << texts[1] >>, 1)

\* Variant of cache_colors that looks the monitor up after caching.
CacheColorsBeforeLookup(b, monitor_index, texts) ==
    IF monitor_index >= Len(b.monitors)
    THEN Panicked(CacheColorsFrom(b, Pixmap(0), texts, 1), "index out of bounds")
    ELSE CacheColorsFrom(b, Pixmap(b.monitors[monitor_index + 1].pixmap), texts, 1)

\* Bar::cache_colors (monitor_index counts from 0)
CacheColors(b, monitor_index, texts) ==
    IF monitor_index >= Len(b.monitors)
    THEN Panicked(b, "index out of bounds")
    ELSE CacheColorsFrom(b, Pixmap(b.monitors[monitor_index + 1].pixmap), texts, 1)

\* Setup::fill_rects: the requests are sent in slice order; the conversion of
\* a coordinate that does not fit its protocol field panics while sending.
RECURSIVE FillRects(_, _, _)
FillRects(b, rects, i) ==
    IF i > Len(rects) THEN b
    ELSE LET r == rects[i]
         IN  IF r.x > I16Max \/ r.y > I16Max \/ r.w > U16Max \/ r.h > U16Max
             THEN Panicked(b, "TryFromIntError")
             ELSE FillRects(Issue(b, PolyFillRectangleReq(r)), rects, i + 1)

\* Setup::fill_polys: one fill-polygon request per polygon, in slice order
RECURSIVE FillPolys(_, _, _)
FillPolys(b, polys, i) ==
    IF i > Len(polys) THEN b
    ELSE FillPolys(Issue(b, FillPolyReq(polys[i])), polys, i + 1)

\* Setup::copy_areas
RECURSIVE CopyAreas(_, _, _)
CopyAreas(b, areas, i) ==
    IF i > Len(areas) THEN b
    ELSE LET a == areas[i]
         IN  IF a.w > U16Max \/ a.h > U16Max
             THEN Panicked(b, "TryFromIntError")
             ELSE CopyAreas(Issue(b, CopyAreaReq(a)), areas, i + 1)

\* Xft::draw_string, the baseline (canvas_height - asc_and_desc) / 2 + ascent
\* in u32.  For a canvas lower than the font by d the subtraction wraps to
\* 2^32 - d without overflow checks, whose half is 2^31 - ceil(d / 2): the
\* baseline is then I32Max - (ceil(d / 2) - ascent - 1), or above I32Max
\* when the ascent is ceil(d / 2) or more.
BaselineFits(f, canvas_height) ==
    IF canvas_height >= AscAndDesc(f)
    THEN (canvas_height - AscAndDesc(f)) \div 2 <= I32Max - f.ascent
    ELSE f.ascent < (AscAndDesc(f) - canvas_height + 1) \div 2

BaselineOffset(f, canvas_height) ==
    IF canvas_height >= AscAndDesc(f)
    THEN (canvas_height - AscAndDesc(f)) \div 2 + f.ascent
    ELSE I32Max - ((AscAndDesc(f) - canvas_height + 1) \div 2 - f.ascent - 1)

\* Variant of draw_string that starts every text at the left edge.
DrawStringAtOrigin(b, text, draw, fg, canvas_height, cursor_offset) ==
    IF canvas_height < AscAndDesc(b.font) /\ b.overflow_checks
    THEN Panicked(b, "attempt to subtract with overflow")
    ELSE IF cursor_offset > I32Max
    THEN Panicked(b, "Cursor offset not representable as c_int")
    ELSE IF ~BaselineFits(b.font, canvas_height)
    THEN Panicked(b, "Baseline offset not representable as c_int")
    ELSE Issue(b, DrawStringReq(text, draw, CreateColor(fg), 0,
                                BaselineOffset(b.font, canvas_height)))

\* Xft::draw_string: the subtraction of the baseline panics under overflow
\* checks, then the cursor and then the baseline have to fit a c_int.
DrawString(b, text, draw, fg, canvas_height, cursor_offset) ==
    IF canvas_height < AscAndDesc(b.font) /\ b.overflow_checks
    THEN Panicked(b, "attempt to subtract with overflow")
    ELSE IF cursor_offset > I32Max
    THEN Panicked(b, "Cursor offset not representable as c_int")
    ELSE IF ~BaselineFits(b.font, canvas_height)
    THEN Panicked(b, "Baseline offset not representable as c_int")
    ELSE Issue(b, DrawStringReq(text, draw, CreateColor(fg), cursor_offset,
                                BaselineOffset(b.font, canvas_height)))

RECURSIVE SumFrom(_, _)
SumFrom(widths, i) == IF i > Len(widths) THEN 0 ELSE widths[i] + SumFrom(widths, i + 1)

\* The item loop of Bar::draw, from item i on with the cursor at cursor_offset
RECURSIVE DrawItems(_, _, _, _, _, _)
DrawItems(b, draw, cursor_offset, items, item_widths, i) ==
    IF i > Len(items) THEN b
    ELSE LET item == items[i]
             width == item_widths[i]
         IN  IF item.bg \notin DOMAIN b.color_gcs
             THEN Panicked(b, "Color is not cached")
             ELSE
             LET rect == FillRect(draw, b.color_gcs[item.bg], cursor_offset, 0, width,
                                  b.height)
                 filled == FillRects(b, << rect >>, 1)
                 drawn == DrawString(filled, item.shape.text, draw, item.fg,
                                     b.height, cursor_offset)
             IN  IF filled.panic # "" THEN filled
                 ELSE IF item.shape.kind = "Text"
                 THEN IF drawn.panic # "" THEN drawn
                      ELSE DrawItems(drawn, draw, cursor_offset + width, items,
                                     item_widths, i + 1)
                 ELSE IF item.fg \notin DOMAIN filled.color_gcs
                 THEN Panicked(filled, "Color is not cached")
                 ELSE LET color_gc == filled.color_gcs[item.fg]
                          points == ShapePolys(b.height, cursor_offset, item.shape.style,
                                               item.shape.direction, item.shape.fill)
                          polys == [k \in 1..Len(points) |->
                                       FillPoly(draw, color_gc, points[k])]
                      IN  DrawItems(FillPolys(filled, polys, 1), draw,
                                    cursor_offset + width, items, item_widths, i + 1)

\* Variant of the start of the cursor that centres rounding up.
StartCursorCeil(alignment, monitor_width, sum) ==
    CASE alignment = "Left" -> 0
      [] alignment = "Center" -> (monitor_width - sum + 1) \div 2
      [] alignment = "Right" -> monitor_width - sum

\* Bar::draw: where the rendering starts, for a width sum that does not
\* exceed the monitor's width
StartCursor(alignment, monitor_width, sum) ==
    CASE alignment = "Left" -> 0
      [] alignment = "Center" -> (monitor_width - sum) \div 2
      [] alignment = "Right" -> monitor_width - sum

\* Bar::draw.  With overflow checks the subtraction of a width sum larger
\* than the monitor panics; without them it wraps to a value of at least
\* 2^31 - sum/2, which the conversion to i16 in fill_rects rejects on the
\* first item.
Draw(b, monitor_index, alignment, items) ==
    LET cached == CacheColors(b, monitor_index, items)
    IN  IF cached.panic # "" THEN cached
        ELSE
        LET item_widths == [i \in 1..Len(items) |-> CursorOffset(b.height, b.font, items[i])]
            monitor == b.monitors[monitor_index + 1]
            draw == Pixmap(monitor.pixmap)
            monitor_width == monitor.w
            sum == SumFrom(item_widths, 1)
        IN  IF alignment # "Left" /\ sum > monitor_width
            THEN IF b.overflow_checks
                 THEN Panicked(cached, "attempt to subtract with overflow")
                 ELSE IF items[1].bg \in DOMAIN cached.color_gcs
                      THEN Panicked(cached, "TryFromIntError")
                      ELSE Panicked(cached, "Color is not cached")
            ELSE LET cursor_offset == StartCursor(alignment, monitor_width, sum)
                 IN  DrawItems(cached, draw, cursor_offset, items, item_widths, 1)

\* Variant of clear_monitors that clears the first monitor only.
ClearMonitorsFirstOnly(b) ==
    FillRects(b, [i \in 1..(IF b.monitors = << >> THEN 0 ELSE 1) |->
                     FillRect(Pixmap(b.monitors[i].pixmap), b.clear_gc, 0, 0,
                              b.monitors[i].w, b.height)], 1)

\* Bar::clear_monitors
ClearMonitors(b) ==
    FillRects(b, [i \in 1..Len(b.monitors) |->
                     FillRect(Pixmap(b.monitors[i].pixmap), b.clear_gc, 0, 0,
                              b.monitors[i].w, b.height)], 1)

\* Variant of present that copies every pixmap to the first window.
PresentFirstWindow(b) ==
    CopyAreas(b, [i \in 1..Len(b.monitors) |->
                     CopyArea(b.monitors[i].pixmap, b.monitors[1].window, b.clear_gc,
                              b.monitors[i].w, b.height)], 1)

\* Bar::present
Present(b) ==
    CopyAreas(b, [i \in 1..Len(b.monitors) |->
                     CopyArea(b.monitors[i].pixmap, b.monitors[i].window, b.clear_gc,
                              b.monitors[i].w, b.height)], 1)

\* Variant of flush that drops the cached contexts.
FlushForgetting(b) == [Issue(b, FlushReq) EXCEPT !.color_gcs = << >>]

\* Bar::flush
Flush(b) == Issue(b, FlushReq)

\* The atoms Bar::new interns, and the properties it sets on every window
AtomNames ==
    << "_NET_WM_DESKTOP", "_NET_WM_WINDOW_TYPE", "_NET_WM_WINDOW_TYPE_DOCK",
       "_NET_WM_STATE", "_NET_WM_STATE_STICKY", "_NET_WM_STRUT_PARTIAL",
       "_NET_WM_STRUT" >>

WindowProperties ==
    << << "_NET_WM_DESKTOP", << "u32::MAX" >> >>,
       << "_NET_WM_WINDOW_TYPE", << "_NET_WM_WINDOW_TYPE_DOCK" >> >>,
       << "_NET_WM_STATE", << "_NET_WM_STATE_STICKY" >> >>,
       << "WM_NAME", "saftbar" >>,
       << "WM_CLASS", "saftbar" >> >>

\* Setup::replace_properties
RECURSIVE ReplaceProperties(_, _, _, _)
ReplaceProperties(b, window, properties, i) ==
    IF i > Len(properties) THEN b
    ELSE ReplaceProperties(
             Issue(b, ChangePropertyReq(window, properties[i][1], properties[i][2])),
             window, properties, i + 1)

\* Setup::get_atoms
RECURSIVE GetAtoms(_, _, _)
GetAtoms(b, names, i) ==
    IF i > Len(names) THEN b
    ELSE GetAtoms(Issue(b, InternAtomReq(names[i])), names, i + 1)

\* Setup::create_window_and_pixmap, for the valid regions from i on.  The
\* window's id is generated before the region and the height are converted
\* to the protocol's fields, so a failed conversion leaves one id taken.
RECURSIVE CreateMonitors(_, _, _)
CreateMonitors(b, valid, i) ==
    IF i > Len(valid) THEN b
    ELSE LET r == valid[i]
             window == b.next_id
             pixmap == b.next_id + 1
         IN  IF r.w > U16Max \/ b.height > U16Max \/ r.x > I16Max \/ r.y > I16Max
             THEN Panicked([b EXCEPT !.next_id = @ + 1], "TryFromIntError")
             ELSE CreateMonitors(
                      [b EXCEPT !.next_id = @ + 2,
                                !.requests = @ \o << CreateWindowReq(window, r.x, r.y, r.w,
                                                                     b.height),
                                                     CreatePixmapReq(pixmap, window, r.w,
                                                                     b.height) >>,
                                !.monitors = Append(@, [x |-> r.x, w |-> r.w,
                                                        pixmap |-> pixmap,
                                                        window |-> window])],
                      valid, i + 1)

\* The window properties of the monitors from i on
RECURSIVE SetWindowProperties(_, _)
SetWindowProperties(b, i) ==
    IF i > Len(b.monitors) THEN b
    ELSE LET monitor == b.monitors[i]
             h == b.height
             sx == monitor.x
             ex == sx + monitor.w
             strut_data == << 0, 0, h, 0, 0, 0, 0, 0, sx, ex, 0, 0 >>
             monitor_properties ==
                 << << "_NET_WM_STRUT_PARTIAL", strut_data >>,
                    << "_NET_WM_STRUT", SubSeq(strut_data, 1, 4) >> >>
         IN  SetWindowProperties(
                 ReplaceProperties(
                     ReplaceProperties(b, monitor.window, WindowProperties, 1),
                     monitor.window, monitor_properties, 1),
                 i + 1)

\* Setup::map_windows
RECURSIVE MapWindows(_, _)
MapWindows(b, i) ==
    IF i > Len(b.monitors) THEN b
    ELSE MapWindows(Issue(b, MapWindowReq(b.monitors[i].window)), i + 1)

\* The Foreground of the clear context, 0xFF00_0000
ClearPixel == << 255, 0, 0, 0 >>

\* Bar::new, on the regions the resolver returned
BarNewOn(b, valid) ==
    LET colormap == b.next_id
        setup == [b EXCEPT !.next_id = @ + 1,
                           !.requests = Append(@, CreateColormapReq(colormap)),
                           !.height = AscAndDesc(b.font)]
        windows == CreateMonitors(setup, valid, 1)
    IN  IF windows.panic # "" THEN windows
        ELSE
        LET hinted == SetWindowProperties(GetAtoms(windows, AtomNames, 1), 1)
        IN  IF hinted.monitors = << >>
            THEN Panicked(hinted, "index out of bounds")
            ELSE LET reference_drawable == Window(hinted.monitors[1].window)
                     with_gc == CreateGc(hinted, reference_drawable, ClearPixel)
                     bar == [with_gc EXCEPT !.clear_gc = hinted.next_id]
                 IN  Flush(MapWindows(bar, 1))

(***************************************************************************)
(* Spec: one Bar, from construction on.  The display provider reports one  *)
(* of a few configurations; the application then calls draw,               *)
(* clear_monitors, present and flush in any order, one call at a time.     *)
(***************************************************************************)
DisplayConfigs ==
    { << >>,
      << Rect(0, 0, 1000, 600) >>,
      << Rect(1000, 0, 40, 30), Rect(0, 0, 1000, 600), Rect(0, 0, 500, 300) >>,
      << Rect(0, 0, 1000, 600), Rect(0, 0, 1000, 600) >> }

ItemUniverse ==
    { ContentItem(Black, Red, Text("AB")),
      ContentItem(Red, Blue, Text("ABCDE")),
      ContentItem(Red, Black, Text("")),
      ContentItem(Black, Red, Powerline("Powerline", "Full", "Right")),
      ContentItem(Red, Blue, Powerline("Powerline", "No", "Left")),
      ContentItem(Blue, Black, Powerline("Octagon", "Full", "Left")),
      ContentItem(Red, Red, Powerline("Octagon", "No", "Right")) }

RECURSIVE SeqsUpTo(_, _)
SeqsUpTo(S, n) ==
    IF n = 0 THEN { << >> }
    ELSE LET shorter == SeqsUpTo(S, n - 1)
         IN  shorter \cup { Append(s, e) : s \in shorter, e \in S }

ItemLists == SeqsUpTo(ItemUniverse, MaxItems)

\* The bar's state as the operations above take it
BarState ==
    [overflow_checks |-> overflow_checks, font |-> font, height |-> height,
     monitors |-> monitors, color_gcs |-> color_gcs, clear_gc |-> clear_gc,
     next_id |-> next_id, gc_values |-> gc_values, ensured |-> ensured,
     requests |-> << >>, panic |-> ""]

\* The outcome b of an operation becomes the state
Becomes(b) ==
    /\ height' = b.height
    /\ monitors' = b.monitors
    /\ color_gcs' = b.color_gcs
    /\ clear_gc' = b.clear_gc
    /\ next_id' = b.next_id
    /\ gc_values' = b.gc_values
    /\ ensured' = b.ensured
    /\ requests' = b.requests
    /\ panic' = b.panic
    /\ pc' = IF b.panic # "" THEN "panicked" ELSE "called"
    /\ UNCHANGED << regions, rgba, pixel, overflow_checks, font, shape_args,
                    polygons, item_width, pipelineVars, loopVars >>

Init ==
    /\ pc = "start"
    /\ regions \in DisplayConfigs
    /\ valid_regions = << >>
    /\ rgba = << 0, 0, 0, 0 >>
    /\ pixel = << 0, 0, 0, 0 >>
    /\ overflow_checks \in BOOLEAN
    /\ font \in Fonts
    /\ height = 0
    /\ monitors = << >>
    /\ color_gcs = << >>
    /\ clear_gc = 0
    /\ next_id = 1
    /\ gc_values = << >>
    /\ ensured = { }
    /\ requests = << >>
    /\ call = [op |-> "none"]
    /\ panic = ""
    /\ previous = NoPrevious
    /\ shape_args = NoShape
    /\ polygons = << >>
    /\ item_width = 0
    /\ PipelineUnused
    /\ LoopUnused

BarNew ==
    /\ pc = "start"
    /\ valid_regions' = QueryValidCrtcRegions(regions)
    /\ call' = [op |-> "new"]
    /\ Becomes(BarNewOn(BarState, QueryValidCrtcRegions(regions)))
    /\ previous' = NoPrevious

DrawCall ==
    /\ pc = "ready"
    /\ \E monitor_index \in 0..Len(monitors), alignment \in Alignments,
          items \in ItemLists :
          /\ call' = [op |-> "draw", monitor_index |-> monitor_index,
                      alignment |-> alignment, items |-> items]
          /\ Becomes(Draw(BarState, monitor_index, alignment, items))
    /\ previous' = NoPrevious
    /\ UNCHANGED valid_regions

\* The application draws the same content again, as it does on every redraw
\* that finds the content unchanged: draw runs on the state the call before
\* left, and the requests of that call are kept for comparison.
DrawAgain ==
    /\ pc = "called"
    /\ call.op = "draw"
    /\ ~previous.repeated
    /\ call' = call
    /\ Becomes(Draw(BarState, call.monitor_index, call.alignment, call.items))
    /\ previous' = [repeated |-> TRUE, requests |-> requests]
    /\ UNCHANGED valid_regions

ClearMonitorsCall ==
    /\ pc = "ready"
    /\ call' = [op |-> "clear_monitors"]
    /\ Becomes(ClearMonitors(BarState))
    /\ previous' = NoPrevious
    /\ UNCHANGED valid_regions

PresentCall ==
    /\ pc = "ready"
    /\ call' = [op |-> "present"]
    /\ Becomes(Present(BarState))
    /\ previous' = NoPrevious
    /\ UNCHANGED valid_regions

FlushCall ==
    /\ pc = "ready"
    /\ call' = [op |-> "flush"]
    /\ Becomes(Flush(BarState))
    /\ previous' = NoPrevious
    /\ UNCHANGED valid_regions

\* The operation returns to the application, which may call the next one.
Return ==
    /\ pc = "called"
    /\ pc' = "ready"
    /\ requests' = << >>
    /\ call' = [op |-> "none"]
    /\ UNCHANGED << regions, valid_regions, rgba, pixel, overflow_checks, font,
                    height, monitors, color_gcs, clear_gc, next_id, gc_values,
                    ensured, panic, shape_args, polygons, item_width,
                    pipelineVars, loopVars >>
    /\ previous' = NoPrevious

Next ==
    \/ BarNew
    \/ DrawCall
    \/ DrawAgain
    \/ ClearMonitorsCall
    \/ PresentCall
    \/ FlushCall
    \/ Return

Spec == Init /\ [][Next]_vars

(***************************************************************************)
(* SpecPipeline: Setup::pipeline_requests on one batch.  The server        *)
(* rejects the requests of the cookies in backend_rejects; a cookie is the *)
(* sequence number of its request on the connection.                       *)
(***************************************************************************)
MaxBatch == 3

BatchData == { "a", "b" }

Batches == SeqsUpTo(BatchData, MaxBatch)

\* The variables the pipeline and the loop leave alone
barFields == << regions, valid_regions, rgba, pixel, overflow_checks, font, height,
                monitors, color_gcs, clear_gc, next_id, gc_values, ensured,
                previous, shape_args, polygons, item_width >>

BarFieldsUnused ==
    /\ regions = << >>
    /\ valid_regions = << >>
    /\ rgba = << 0, 0, 0, 0 >>
    /\ pixel = << 0, 0, 0, 0 >>
    /\ overflow_checks = TRUE
    /\ font = [ascent |-> 0, descent |-> 0, advance |-> 0]
    /\ height = 0
    /\ monitors = << >>
    /\ color_gcs = << >>
    /\ clear_gc = 0
    /\ next_id = 0
    /\ gc_values = << >>
    /\ ensured = { }
    /\ previous = NoPrevious
    /\ shape_args = NoShape
    /\ polygons = << >>
    /\ item_width = 0

InitPipeline ==
    /\ pc = "pipelining"
    /\ call \in { [op |-> "pipeline_requests", data |-> data] : data \in Batches }
    /\ backend_rejects \in SUBSET (1..Len(call.data))
    /\ cookies = << >>
    /\ checked = << >>
    /\ failed = "none"
    /\ requests = << >>
    /\ panic = ""
    /\ BarFieldsUnused
    /\ LoopUnused

\* Variant of the pairing that shows the first element of the batch.
ZippedDataFirst(data, k) == data[1]

\* .zip(data.iter()): the data paired with the k-th cookie
ZippedData(data, k) == data[k]

\* data.iter().map(send_request): the next element is sent and its cookie
\* collected.
SendRequest ==
    /\ pc = "pipelining"
    /\ Len(cookies) < Len(call.data)
    /\ requests' = Append(requests, call.data[Len(cookies) + 1])
    /\ cookies' = Append(cookies, Len(requests) + 1)
    /\ UNCHANGED << pc, call, panic, backend_rejects, checked, failed, barFields,
                    loopVars >>

\* for_each: the next cookie is checked, once every request has been sent.
CheckRequest ==
    /\ pc = "pipelining"
    /\ Len(cookies) = Len(call.data)
    /\ Len(checked) < Len(cookies)
    /\ LET k == Len(checked) + 1
       IN  /\ checked' = Append(checked, cookies[k])
           /\ IF cookies[k] \in backend_rejects
              THEN /\ pc' = "panicked"
                   /\ panic' = "Request failed"
                   /\ failed' = ZippedData(call.data, k)
              ELSE UNCHANGED << pc, panic, failed >>
    /\ UNCHANGED << call, requests, backend_rejects, cookies, barFields, loopVars >>

\* Every cookie checked out: pipeline_requests returns ().
PipelineReturns ==
    /\ pc = "pipelining"
    /\ Len(cookies) = Len(call.data)
    /\ Len(checked) = Len(cookies)
    /\ pc' = "returned"
    /\ UNCHANGED << call, requests, panic, pipelineVars, barFields, loopVars >>

NextPipeline == SendRequest \/ CheckRequest \/ PipelineReturns

SpecPipeline == InitPipeline /\ [][NextPipeline]_vars

(***************************************************************************)
(* SpecLoop: main of the interactive example.  A redraw is clear_monitors, *)
(* the draws of render, the copy to the windows and flush; then the loop   *)
(* waits in next_x_event, and a KeyPress requests the next redraw.  The    *)
(* server sends at most MaxEvents events.                                  *)
(***************************************************************************)
MaxEvents == 3

DrawsPerRender == 4

Events == { "KeyPress", "Expose" }

InitLoop ==
    /\ pc = "loop"
    /\ redraw = TRUE
    /\ history = << >>
    /\ arrived = << >>
    /\ pending = << >>
    /\ delivered = << >>
    /\ requests = << >>
    /\ call = [op |-> "none"]
    /\ panic = ""
    /\ BarFieldsUnused
    /\ PipelineUnused

\* The server sends an event; the connection's descriptor becomes readable.
EventArrives ==
    /\ Len(arrived) < MaxEvents
    /\ \E e \in Events :
           /\ arrived' = Append(arrived, e)
           /\ pending' = Append(pending, e)
    /\ UNCHANGED << pc, redraw, history, delivered, requests, call, panic, barFields,
                    pipelineVars >>

\* if redraw { ... }
CheckRedraw ==
    /\ pc = "loop"
    /\ IF redraw THEN pc' = "clear_monitors" /\ history' = << >>
       ELSE pc' = "next_x_event" /\ history' = history
    /\ UNCHANGED << redraw, arrived, pending, delivered, requests, call, panic,
                    barFields, pipelineVars >>

\* render: bar.clear_monitors()
RenderClears ==
    /\ pc = "clear_monitors"
    /\ history' = Append(history, "clear_monitors")
    /\ pc' = "draw"
    /\ UNCHANGED << redraw, arrived, pending, delivered, requests, call, panic,
                    barFields, pipelineVars >>

\* render: the next of its draw calls
RenderDraws ==
    /\ pc = "draw"
    /\ history' = Append(history, "draw")
    /\ pc' = IF Len(history') = DrawsPerRender + 1 THEN "present" ELSE "draw"
    /\ UNCHANGED << redraw, arrived, pending, delivered, requests, call, panic,
                    barFields, pipelineVars >>

\* Variant of the loop that goes from the copy straight to the event wait.
LoopPresentsSkippingFlush ==
    /\ pc = "present"
    /\ history' = Append(history, "present")
    /\ pc' = "next_x_event"
    /\ UNCHANGED << redraw, arrived, pending, delivered, requests, call, panic,
                    barFields, pipelineVars >>

\* bar.blit(), the present of this revision
LoopPresents ==
    /\ pc = "present"
    /\ history' = Append(history, "present")
    /\ pc' = "flush"
    /\ UNCHANGED << redraw, arrived, pending, delivered, requests, call, panic,
                    barFields, pipelineVars >>

\* bar.flush(); redraw = false
LoopFlushes ==
    /\ pc = "flush"
    /\ history' = Append(history, "flush")
    /\ redraw' = FALSE
    /\ pc' = "next_x_event"
    /\ UNCHANGED << arrived, pending, delivered, requests, call, panic, barFields,
                    pipelineVars >>

\* bar.next_x_event().await: the event wait begins
NextXEventCalled ==
    /\ pc = "next_x_event"
    /\ history' = Append(history, "next_x_event")
    /\ pc' = "poll"
    /\ UNCHANGED << redraw, arrived, pending, delivered, requests, call, panic,
                    barFields, pipelineVars >>

\* Variant of the poll that discards an event before it returns the next.
PollForEventSkipping ==
    /\ pc = "poll"
    /\ IF Len(pending) >= 2
       THEN /\ delivered' = Append(delivered, pending[2])
            /\ pending' = Tail(Tail(pending))
            /\ pc' = "dispatch"
       ELSE IF pending # << >>
       THEN /\ delivered' = Append(delivered, Head(pending))
            /\ pending' = Tail(pending)
            /\ pc' = "dispatch"
       ELSE /\ pc' = "readable"
            /\ UNCHANGED << pending, delivered >>
    /\ UNCHANGED << redraw, history, arrived, requests, call, panic, barFields,
                    pipelineVars >>

\* next_x_event: poll_for_event; an event is returned, no event leads to
\* the wait for the descriptor.
PollForEvent ==
    /\ pc = "poll"
    /\ IF pending # << >>
       THEN /\ delivered' = Append(delivered, Head(pending))
            /\ pending' = Tail(pending)
            /\ pc' = "dispatch"
       ELSE /\ pc' = "readable"
            /\ UNCHANGED << pending, delivered >>
    /\ UNCHANGED << redraw, history, arrived, requests, call, panic, barFields,
                    pipelineVars >>

\* next_x_event: the descriptor is readable, the loop polls again.
Readable ==
    /\ pc = "readable"
    /\ pending # << >>
    /\ pc' = "poll"
    /\ UNCHANGED << redraw, history, arrived, pending, delivered, requests, call,
                    panic, barFields, pipelineVars >>

\* next_x_event: registering the descriptor or waiting on it fails.
WaitFails ==
    /\ pc = "readable"
    /\ pc' = "panicked"
    /\ panic' \in { "Failed to initialize async fd", "Failed to wait for events" }
    /\ UNCHANGED << redraw, history, arrived, pending, delivered, requests, call,
                    barFields, pipelineVars >>

\* if let KeyPress = event { redraw = true }
Dispatch ==
    /\ pc = "dispatch"
    /\ redraw' = (delivered[Len(delivered)] = "KeyPress")
    /\ pc' = "loop"
    /\ UNCHANGED << history, arrived, pending, delivered, requests, call, panic,
                    barFields, pipelineVars >>

NextLoop ==
    \/ EventArrives
    \/ CheckRedraw
    \/ RenderClears
    \/ RenderDraws
    \/ LoopPresents
    \/ LoopFlushes
    \/ NextXEventCalled
    \/ PollForEvent
    \/ Readable
    \/ WaitFails
    \/ Dispatch

SpecLoop == InitLoop /\ [][NextLoop]_vars

\* The task is scheduled whenever it can run: the poll is a step of the
\* program, and the runtime wakes the task once the descriptor is readable.
FairSpecLoop ==
    SpecLoop /\ WF_vars(PollForEvent) /\ WF_vars(Readable) /\ WF_vars(Dispatch)

(***************************************************************************)
(* Claims about the resolver, checked under SpecResolver.                  *)
(***************************************************************************)
\* Containment as the claims state it: a lies within b.
ContainedIn(a, b) ==
    /\ a.x >= b.x
    /\ a.x + a.w <= b.x + b.w
    /\ a.y >= b.y
    /\ a.y + a.h <= b.y + b.h

\* C1: the resolver never returns two distinct output entries one of which
\* is contained in the other.
C1_NoContainedPair ==
    pc = "resolved" =>
        \A i, j \in 1..Len(valid_regions) :
            i # j => ~ContainedIn(valid_regions[i], valid_regions[j])

\* A three-rectangle input of which one is discarded as contained in another
\* while two survive.
C1_Witness ==
    /\ pc = "resolved"
    /\ Len(regions) = 3
    /\ Len(valid_regions) = 2
    /\ \E i, j \in 1..3 : i # j /\ ContainedIn(regions[i], regions[j])
                           /\ ~ContainedIn(regions[j], regions[i])

\* C2: the resolver output is sorted: for consecutive entries a, b either
\* a.x < b.x, or a.x = b.x and a.y + a.h <= b.y + b.h.
C2_OutputSorted ==
    pc = "resolved" =>
        \A i \in 1..(Len(valid_regions) - 1) :
            LET a == valid_regions[i]
                b == valid_regions[i + 1]
            IN  \/ a.x < b.x
                \/ a.x = b.x /\ a.y + a.h <= b.y + b.h

\* C3: compare_rectangles is a total order on the rectangles with w, h > 0:
\* reflexive (Equal on a, a), antisymmetric (compare(a, b) is the reverse of
\* compare(b, a)), transitive, keyed on ascending x and then on ascending
\* bottom edge y + h.
Reverse(o) == IF o = "Less" THEN "Greater" ELSE IF o = "Greater" THEN "Less" ELSE "Equal"

C3_TotalOrder ==
    LET given == { regions[i] : i \in 1..Len(regions) }
    IN  pc = "resolved" => \A a, b, c \in given :
            /\ CompareRectangles(a, a) = "Equal"
            /\ CompareRectangles(a, b) = Reverse(CompareRectangles(b, a))
            /\ (CompareRectangles(a, b) = "Less" /\ CompareRectangles(b, c) = "Less")
                   => CompareRectangles(a, c) = "Less"
            /\ CompareRectangles(a, b) =
                   (IF a.x # b.x THEN Cmp(a.x, b.x) ELSE Cmp(a.y + a.h, b.y + b.h))

\* C4: every input rectangle is contained in (or equal to) some output
\* rectangle, so a non-empty input never resolves to an empty monitor list.
C4_OutputCoversInput ==
    pc = "resolved" =>
        /\ \A i \in 1..Len(regions) :
               \E j \in 1..Len(valid_regions) :
                   ContainedIn(regions[i], valid_regions[j])
        /\ (regions # << >> => valid_regions # << >>)

\* C5: the rectangles {0,0,100,100}, {0,0,200,200}, {300,0,50,50}, in any
\* order, resolve to exactly [{0,0,200,200}, {300,0,50,50}].
C5_Scenario ==
    (pc = "resolved" /\ regions \in ScenarioLists) =>
        valid_regions = << Rect(0, 0, 200, 200), Rect(300, 0, 50, 50) >>

\* The scenario given right-to-left, so that the sort has to reorder it.
C5_Witness ==
    /\ pc = "resolved"
    /\ regions = << Rect(300, 0, 50, 50), Rect(0, 0, 100, 100), Rect(0, 0, 200, 200) >>
    /\ Len(valid_regions) = 2

(***************************************************************************)
(* Claims about the shapes, checked under SpecShape.                       *)
(***************************************************************************)
\* C11: for every bar height in 1..200, every direction and every offset,
\* Powerline/Full yields exactly 1 polygon with 5 vertices, Powerline/No
\* exactly 2 polygons, Octagon/Full exactly 1 polygon and Octagon/No exactly
\* 3 polygons.
C11_PolygonCounts ==
    pc = "shaped" =>
        CASE shape_args.style = "Powerline" /\ shape_args.fill = "Full" ->
               Len(polygons) = 1 /\ Len(polygons[1]) = 5
          [] shape_args.style = "Powerline" /\ shape_args.fill = "No" ->
               Len(polygons) = 2
          [] shape_args.style = "Octagon" /\ shape_args.fill = "Full" ->
               Len(polygons) = 1
          [] shape_args.style = "Octagon" /\ shape_args.fill = "No" ->
               Len(polygons) = 3

\* The outlined octagon of the tallest bar: three strokes.
C11_Witness ==
    /\ pc = "shaped"
    /\ shape_args.h = 200
    /\ shape_args.style = "Octagon"
    /\ shape_args.fill = "No"
    /\ Len(polygons) = 3
    /\ polygons[2][2] = << shape_args.xl + 50, 150 >>

\* The polygons ps moved by k along x
Translate(ps, k) ==
    [p \in 1..Len(ps) |->
        [v \in 1..Len(ps[p]) |-> << ps[p][v][1] + k, ps[p][v][2] >>]]

Shifts == { 0, 1, 7, 1000 }

\* C12: shape generation is translation-equivariant: the polygons at offset
\* xl + k are the polygons at xl with k added to the x of every vertex and
\* every y unchanged, in the same order.
C12_TranslationEquivariant ==
    pc = "shaped" =>
        \A k \in Shifts :
            ShapePolys(shape_args.h, shape_args.xl + k, shape_args.style,
                       shape_args.direction, shape_args.fill)
                = Translate(polygons, k)

\* A Left octagon away from the origin, whose left edge is not the offset.
C12_Witness ==
    /\ pc = "shaped"
    /\ shape_args.xl = 999
    /\ shape_args.h = 20
    /\ shape_args.style = "Octagon"
    /\ shape_args.direction = "Left"
    /\ polygons[1][1] = << 1003, 5 >>

\* C13: the width the layout assigns to a shape item is ceil(height/2) for
\* the Powerline style and height/4 + 1 (truncating) for the Octagon style.
C13_ShapeWidth ==
    pc \in { "measured", "shaped" } =>
        item_width = (IF shape_args.style = "Powerline"
                      THEN (shape_args.h + 1) \div 2
                      ELSE shape_args.h \div 4 + 1)

\* C14: the layout width of a shape item does not depend on its fill or on
\* its direction: at a fixed height and style cursor_offset returns the same
\* value for all four combinations.
C14_WidthIgnoresFillAndDirection ==
    pc \in { "measured", "shaped" } =>
        \A fill \in Fills, direction \in Directions :
            CursorOffset(shape_args.h, font,
                         ContentItem(Black, Red,
                                     Powerline(shape_args.style, fill, direction)))
                = item_width

\* An outlined Left octagon, measured on a bar of odd height.
C14_Witness ==
    /\ pc = "measured"
    /\ shape_args.h = 199
    /\ shape_args.style = "Octagon"
    /\ shape_args.direction = "Left"
    /\ shape_args.fill = "No"
    /\ item_width = 100

VertexSet(poly) == { poly[v] : v \in 1..Len(poly) }

\* The vertices of poly reflected in the cell [xl, xl + w]
MirrorSet(poly, xl, w) ==
    { << 2 * xl + w - poly[v][1], poly[v][2] >> : v \in 1..Len(poly) }

OtherDirection(direction) == IF direction = "Left" THEN "Right" ELSE "Left"

\* C15: direction mirrors the shape: reflecting x to 2*xl + itemWidth - x
\* maps the vertex set of every polygon of one direction onto the vertex set
\* of the corresponding polygon of the other direction, y unchanged, for the
\* Octagon style as for the Powerline style.
C15_DirectionMirrors ==
    pc = "shaped" =>
        LET other == ShapePolys(shape_args.h, shape_args.xl, shape_args.style,
                                OtherDirection(shape_args.direction),
                                shape_args.fill)
        IN  /\ Len(other) = Len(polygons)
            /\ \A p \in 1..Len(polygons) :
                   MirrorSet(polygons[p], shape_args.xl, item_width)
                       = VertexSet(other[p])

\* The outlined Right octagon on a bar of height 20: its cell is 10 wide,
\* its strokes reach 6 into it.
C15_Witness ==
    /\ pc = "shaped"
    /\ shape_args.h = 20
    /\ shape_args.xl = 20
    /\ shape_args.style = "Octagon"
    /\ shape_args.direction = "Right"
    /\ shape_args.fill = "No"
    /\ item_width = 10
    /\ polygons[2][3] = << 26, 15 >>

(***************************************************************************)
(* Claims about the Bar, checked under Spec.                               *)
(***************************************************************************)
\* C6: when the provider yields zero valid regions, Bar construction
\* completes with an empty monitor list and no fault, and a later
\* clear_monitors or present issues zero requests.
C6_ZeroRegionsNoFault ==
    /\ (call.op = "new" /\ valid_regions = << >>) =>
           (pc # "panicked" /\ monitors = << >>)
    /\ (call.op \in { "clear_monitors", "present" } /\ monitors = << >>) =>
           requests = << >>

\* The positions of the fill-rectangle requests in a request sequence
FillPositions(log) == { k \in 1..Len(log) : log[k].op = "PolyFillRectangle" }

FirstOf(positions) == CHOOSE k \in positions : \A other \in positions : k <= other

\* C7: within one draw call the background colour of every item is in the
\* colour cache before the first fill-rectangle request of the call, and no
\* cache insertion follows that first fill.
C7_DrawStep ==
    (pc = "ready" /\ call'.op = "draw" /\ FillPositions(requests') # { }) =>
        LET log == requests'
            first == FirstOf(FillPositions(log))
        IN  /\ \A i \in 1..Len(call'.items) :
                   LET bg == call'.items[i].bg
                   IN  \/ bg \in DOMAIN color_gcs
                       \/ /\ bg \in DOMAIN color_gcs'
                          /\ \E k \in 1..(first - 1) :
                                 /\ log[k].op = "CreateGc"
                                 /\ log[k].cid = color_gcs'[bg]
            /\ \A k \in first..Len(log) : log[k].op # "CreateGc"
            /\ Cardinality(DOMAIN color_gcs') =
                   Cardinality(DOMAIN color_gcs)
                   + Cardinality({ k \in 1..(first - 1) : log[k].op = "CreateGc" })

C7_EagerCaching == [][C7_DrawStep]_vars

\* A draw of two items with two uncached backgrounds: both contexts are
\* created, then the first rectangle is filled.
C7_Witness ==
    /\ pc = "called"
    /\ call.op = "draw"
    /\ Len(call.items) = 2
    /\ call.items[1].bg # call.items[2].bg
    /\ Len(requests) >= 4
    /\ requests[1].op = "CreateGc"
    /\ requests[2].op = "CreateGc"
    /\ requests[3].op = "PolyFillRectangle"

\* C8: no draw call with a valid monitor index and item widths that fit the
\* monitor reaches the failure "Color is not cached".
C8_NoCacheMiss ==
    (/\ call.op = "draw"
     /\ call.monitor_index < Len(monitors)
     /\ SumFrom([i \in 1..Len(call.items) |->
                    CursorOffset(height, font, call.items[i])], 1)
            <= monitors[call.monitor_index + 1].w)
    => panic # "Color is not cached"

\* C9: the colour cache is append-only with one handle per distinct colour:
\* a step never changes or removes a cached handle, the contexts created by
\* cache_color are as many as the distinct colours ensured so far, distinct
\* colours have distinct handles, and a draw whose backgrounds are all
\* cached creates no context.
C9_Step ==
    /\ \A c \in DOMAIN color_gcs :
           c \in DOMAIN color_gcs' /\ color_gcs'[c] = color_gcs[c]
    /\ Cardinality(DOMAIN gc_values' \ { clear_gc' }) = Cardinality(ensured')
    /\ DOMAIN color_gcs' = ensured'
    /\ \A c, d \in DOMAIN color_gcs' : c # d => color_gcs'[c] # color_gcs'[d]
    /\ (/\ call'.op = "draw"
        /\ pc = "ready"
        /\ \A i \in 1..Len(call'.items) : call'.items[i].bg \in DOMAIN color_gcs)
       => (gc_values' = gc_values /\ color_gcs' = color_gcs)

C9_AppendOnlyCache == [][C9_Step]_vars

\* A draw all of whose backgrounds were cached by earlier draws: it issues
\* requests but creates no context.
C9_Witness ==
    /\ pc = "called"
    /\ call.op = "draw"
    /\ call.items # << >>
    /\ Cardinality(DOMAIN color_gcs) >= 2
    /\ requests # << >>
    /\ \A k \in 1..Len(requests) : requests[k].op # "CreateGc"

(***************************************************************************)
(* Claims about the layout, checked under Spec.                            *)
(***************************************************************************)
IsFill(request) == request.op = "PolyFillRectangle"
IsPoly(request) == request.op = "FillPoly"
IsDrawing(request) == request.op # "CreateGc"

\* The widths the layout assigns to the items of the draw call in progress
CallWidths == [i \in 1..Len(call.items) |-> CursorOffset(height, font, call.items[i])]

\* C16: for an item list whose width sum S does not exceed the monitor's
\* width, Left starts the cursor at 0, Right starts it where start + S is
\* the monitor's width (so the cursor ends at the monitor's width), and
\* Center starts it at (monitor_width - S)/2 truncating, which lies in
\* [0, monitor_width - S].
C16_AlignmentStart ==
    (/\ call.op = "draw"
     /\ call.monitor_index < Len(monitors)
     /\ SelectSeq(requests, IsFill) # << >>) =>
        LET fills == SelectSeq(requests, IsFill)
            S == SumFrom(CallWidths, 1)
            monitor_width == monitors[call.monitor_index + 1].w
            start == fills[1].x
            last == fills[Len(fills)]
        IN  S <= monitor_width =>
                /\ call.alignment = "Left" => start = 0
                /\ call.alignment = "Right" =>
                       /\ start + S = monitor_width
                       /\ pc = "called" => last.x + last.width = monitor_width
                /\ call.alignment = "Center" =>
                       /\ start = (monitor_width - S) \div 2
                       /\ 0 <= start
                       /\ start <= monitor_width - S

\* A centred draw that leaves an odd number of pixels free: one shape of
\* width 3 on a monitor of width 1000 starts at 498.
C16_Witness ==
    /\ pc = "called"
    /\ call.op = "draw"
    /\ call.alignment = "Center"
    /\ Len(call.items) = 1
    /\ height = 5
    /\ SelectSeq(requests, IsFill)[1].x = 498
    /\ SelectSeq(requests, IsFill)[1].width = 3

\* C17: two consecutive draw calls with the same monitor, alignment and
\* items, the second on the cache the first left, emit identical sequences
\* of fill-rectangle, text-draw and fill-polygon calls, and the second call
\* creates no graphics context.
C17_DrawIdempotent ==
    (call.op = "draw" /\ previous.repeated) =>
        /\ panic = ""
        /\ SelectSeq(requests, IsDrawing) = SelectSeq(previous.requests, IsDrawing)
        /\ \A k \in 1..Len(requests) : requests[k].op # "CreateGc"

\* A repeated draw of a text and a shape whose first call created contexts:
\* the second call fills, draws the text and fills the polygon again.
C17_Witness ==
    /\ pc = "called"
    /\ call.op = "draw"
    /\ previous.repeated
    /\ \E k \in 1..Len(previous.requests) : previous.requests[k].op = "CreateGc"
    /\ \E k \in 1..Len(requests) : requests[k].op = "XftDrawStringUtf8"
    /\ \E k \in 1..Len(requests) : requests[k].op = "FillPoly"
    /\ Len(SelectSeq(requests, IsFill)) = 2

\* The drawing requests log[k..] are those of the items from i on, walked in
\* order with the cursor at cursor: per item one fill of its background
\* rectangle, then its text or its polygons at the same cursor.
RECURSIVE WalksItems(_, _, _, _, _)
WalksItems(log, k, items, i, cursor) ==
    IF i > Len(items) THEN k = Len(log) + 1
    ELSE LET item == items[i]
             width == CursorOffset(height, font, item)
             points == IF item.shape.kind = "Text" THEN << >>
                       ELSE ShapePolys(height, cursor, item.shape.style,
                                       item.shape.direction, item.shape.fill)
             n == IF item.shape.kind = "Text" THEN 1 ELSE Len(points)
         IN  /\ k + n <= Len(log)
             /\ log[k].op = "PolyFillRectangle"
             /\ log[k].drawable = Pixmap(monitors[call.monitor_index + 1].pixmap)
             /\ log[k].x = cursor
             /\ log[k].y = 0
             /\ log[k].width = width
             /\ log[k].height = height
             /\ item.bg \in DOMAIN color_gcs
             /\ log[k].gc = color_gcs[item.bg]
             /\ IF item.shape.kind = "Text"
                THEN /\ log[k + 1].op = "XftDrawStringUtf8"
                     /\ log[k + 1].text = item.shape.text
                     /\ log[k + 1].x = cursor
                ELSE \A j \in 1..n :
                         /\ log[k + j].op = "FillPoly"
                         /\ log[k + j].points = points[j]
             /\ WalksItems(log, k + 1 + n, items, i + 1, cursor + width)

\* C18: draw walks the items in list order with a running cursor: the i-th
\* background rectangle is [start + widths of the items before, 0, width_i,
\* bar height] with the context cached for the item's background colour,
\* issued before the item's own text or polygons (at the same cursor) and
\* before any call for the next item, so that consecutive rectangles are
\* contiguous.
C18_RunningCursor ==
    (pc = "called" /\ call.op = "draw" /\ call.items # << >>) =>
        LET log == SelectSeq(requests, IsDrawing)
        IN  /\ log # << >>
            /\ WalksItems(log, 1, call.items, 1, log[1].x)

\* A right-aligned draw of a text followed by an outlined octagon: fill,
\* text, fill, three polygons.
C18_Witness ==
    /\ pc = "called"
    /\ call.op = "draw"
    /\ call.alignment = "Right"
    /\ Len(call.items) = 2
    /\ call.items[1].shape.kind = "Text"
    /\ call.items[1].shape.text = "ABCDE"
    /\ call.items[2].shape.kind = "Powerline"
    /\ Len(SelectSeq(requests, IsPoly)) = 3
    /\ SelectSeq(requests, IsFill)[2].x = SelectSeq(requests, IsFill)[1].x + 50

\* C19: with monitor width 1000, bar height 20, alignment Left and items
\* [Text of measured width 20, Powerline(Powerline, Full, Right)], draw fills
\* the first background rectangle at x = 0 with w = 20 and the second at
\* x = 20 with w = 10, and the polygon of the shape is
\* (20,20),(30,9),(30,10),(21,0),(20,0).
C19_LayoutScenario ==
    (/\ call.op = "draw"
     /\ call.alignment = "Left"
     /\ height = 20
     /\ call.monitor_index < Len(monitors)
     /\ monitors[call.monitor_index + 1].w = 1000
     /\ Len(call.items) = 2
     /\ call.items[1].shape = Text("AB")
     /\ CallWidths[1] = 20
     /\ call.items[2].shape = Powerline("Powerline", "Full", "Right")) =>
        LET fills == SelectSeq(requests, IsFill)
            shapes == SelectSeq(requests, IsPoly)
        IN  /\ Len(fills) = 2
            /\ fills[1].x = 0 /\ fills[1].width = 20
            /\ fills[2].x = 20 /\ fills[2].width = 10
            /\ pc = "called" =>
                   /\ Len(shapes) = 1
                   /\ shapes[1].points = << << 20, 20 >>, << 30, 9 >>, << 30, 10 >>,
                                            << 21, 0 >>, << 20, 0 >> >>

\* The scenario drawn to completion.
C19_Witness ==
    /\ pc = "called"
    /\ call.op = "draw"
    /\ call.alignment = "Left"
    /\ height = 20
    /\ monitors[call.monitor_index + 1].w = 1000
    /\ Len(call.items) = 2
    /\ call.items[1].shape = Text("AB")
    /\ call.items[2].shape = Powerline("Powerline", "Full", "Right")
    /\ Len(SelectSeq(requests, IsPoly)) = 1

\* C20: clear_monitors issues exactly one fill request per monitor, each
\* covering (0, 0, monitor.w, bar height) of that monitor's pixmap with the
\* clear context, whatever was drawn before and whatever the colour cache
\* holds.
C20_ClearPerMonitor ==
    call.op = "clear_monitors" =>
        /\ pc = "called"
        /\ Len(requests) = Len(monitors)
        /\ \A i \in 1..Len(monitors) :
               requests[i] = [op |-> "PolyFillRectangle",
                              drawable |-> Pixmap(monitors[i].pixmap),
                              gc |-> clear_gc, x |-> 0, y |-> 0,
                              width |-> monitors[i].w, height |-> height]

\* Two monitors cleared after draws have filled the colour cache.
C20_Witness ==
    /\ pc = "called"
    /\ call.op = "clear_monitors"
    /\ Len(monitors) = 2
    /\ Cardinality(DOMAIN color_gcs) = 3
    /\ Len(requests) = 2
    /\ requests[2].width = 40

(***************************************************************************)
(* Claims about the pixel packing, checked under SpecPack.                 *)
(***************************************************************************)
\* C10: the pixel of (r, g, b, a) is a*2^24 + r*2^16 + g*2^8 + b, that is
\* the bytes a, r, g, b from the most significant down, and distinct colours
\* get distinct pixels.
C10_PixelLayout ==
    pc = "packed" =>
        /\ pixel = << rgba[4], rgba[1], rgba[2], rgba[3] >>
        /\ \A other \in PackInputs : other # rgba => PackColor(other) # pixel

\* A colour whose four channels differ, packed.
C10_Witness ==
    /\ pc = "packed"
    /\ rgba = << 1, 0, 128, 255 >>
    /\ pixel = << 255, 1, 0, 128 >>

(***************************************************************************)
(* Further claims about the Bar, checked under Spec.                       *)
(***************************************************************************)
\* C21: present issues exactly one copy request per monitor, from that
\* monitor's own pixmap to that monitor's own window, from origin (0,0) to
\* origin (0,0), with width monitor.w and height bar height.
C21_PresentPerMonitor ==
    call.op = "present" =>
        /\ pc = "called"
        /\ Len(requests) = Len(monitors)
        /\ \A i \in 1..Len(monitors) :
               requests[i] = [op |-> "CopyArea",
                              src_drawable |-> Pixmap(monitors[i].pixmap),
                              dst_drawable |-> Window(monitors[i].window),
                              gc |-> clear_gc, src_x |-> 0, src_y |-> 0,
                              dst_x |-> 0, dst_y |-> 0,
                              width |-> monitors[i].w, height |-> height]

\* Two monitors with their own windows and pixmaps, presented.
C21_Witness ==
    /\ pc = "called"
    /\ call.op = "present"
    /\ Len(monitors) = 2
    /\ monitors[1].window # monitors[2].window
    /\ monitors[1].pixmap # monitors[2].pixmap
    /\ requests[2].dst_drawable = Window(monitors[2].window)
    /\ requests[2].width = 40

\* C27: clear_monitors, present and flush leave the colour cache and the
\* monitor list unchanged; draw may only add entries to the colour cache and
\* never changes the monitor list, the bar height or the clear context; the
\* monitor list is read-only after Bar::new.
C27_Step ==
    /\ (pc = "ready" /\ call'.op \in { "clear_monitors", "present", "flush" }) =>
           (color_gcs' = color_gcs /\ monitors' = monitors)
    /\ (pc \in { "ready", "called" } /\ call'.op = "draw") =>
           /\ \A c \in DOMAIN color_gcs :
                  c \in DOMAIN color_gcs' /\ color_gcs'[c] = color_gcs[c]
           /\ monitors' = monitors
           /\ height' = height
           /\ clear_gc' = clear_gc
    /\ pc # "start" => monitors' = monitors

C27_FrameConditions == [][C27_Step]_vars

\* A flush on a bar of two monitors whose cache holds three colours.
C27_Witness ==
    /\ pc = "called"
    /\ call.op = "flush"
    /\ Len(monitors) = 2
    /\ Cardinality(DOMAIN color_gcs) = 3
    /\ requests = << FlushReq >>

\* C28: a draw with monitor_index >= number of monitors aborts before any
\* effect: no colour is inserted into the cache and no request is issued.
C28_Step ==
    (pc = "ready" /\ call'.op = "draw" /\ call'.monitor_index >= Len(monitors)) =>
        /\ pc' = "panicked"
        /\ requests' = << >>
        /\ color_gcs' = color_gcs
        /\ gc_values' = gc_values
        /\ next_id' = next_id

C28_IndexAbortHasNoEffect == [][C28_Step]_vars

\* A draw of two items on the monitor after the last one, aborted.
C28_Witness ==
    /\ pc = "panicked"
    /\ call.op = "draw"
    /\ call.monitor_index = Len(monitors)
    /\ Len(call.items) = 2
    /\ panic = "index out of bounds"
    /\ requests = << >>

(***************************************************************************)
(* Further claims about the shapes, checked under SpecShape.               *)
(***************************************************************************)
Xs(poly) == { poly[v][1] : v \in 1..Len(poly) }
Ys(poly) == { poly[v][2] : v \in 1..Len(poly) }

Least(S) == CHOOSE m \in S : \A n \in S : m <= n
Greatest(S) == CHOOSE m \in S : \A n \in S : m >= n

\* C25: with h2 = h/2 truncating, the tip of the Full Powerline wedge lies
\* at y = h2 and y = h - h2 - 1 (one point for odd h, two adjacent rows for
\* even h); in the outline variant the upper stroke spans y in [0, h2 + 1]
\* and the lower y in [h - h2 - 1, h], so both strokes have the vertical
\* extent h2 + 1 and the same horizontal extent, for every height.
C25_WedgeTieBreak ==
    (pc = "shaped" /\ shape_args.style = "Powerline") =>
        LET h == shape_args.h
            h2 == h \div 2
            tip_x == IF shape_args.direction = "Right"
                     THEN shape_args.xl + item_width ELSE shape_args.xl
        IN  IF shape_args.fill = "Full"
            THEN LET wedge == polygons[1]
                     tip == { wedge[v][2] : v \in { u \in 1..Len(wedge) :
                                                        wedge[u][1] = tip_x } }
                 IN  /\ tip = { h2, h - h2 - 1 }
                     /\ (h % 2 = 1 => Cardinality(tip) = 1)
                     /\ (h % 2 = 0 => h2 = (h - h2 - 1) + 1)
            ELSE LET upper == polygons[1]
                     lower == polygons[2]
                 IN  /\ Least(Ys(upper)) = 0
                     /\ Greatest(Ys(upper)) = h2 + 1
                     /\ Least(Ys(lower)) = h - h2 - 1
                     /\ Greatest(Ys(lower)) = h
                     /\ Greatest(Ys(upper)) - Least(Ys(upper)) = h2 + 1
                     /\ Greatest(Ys(lower)) - Least(Ys(lower)) = h2 + 1
                     /\ Least(Xs(upper)) = Least(Xs(lower))
                     /\ Greatest(Xs(upper)) = Greatest(Xs(lower))

\* The outlined Left wedge of a bar of odd height 5.
C25_Witness ==
    /\ pc = "shaped"
    /\ shape_args.style = "Powerline"
    /\ shape_args.fill = "No"
    /\ shape_args.direction = "Left"
    /\ shape_args.h = 5
    /\ shape_args.xl = 0
    /\ Ys(polygons[1]) = { 0, 2, 3 }
    /\ Ys(polygons[2]) = { 2, 4, 5 }

\* C26: every vertex (x, y) of a shape satisfies
\* xl <= x <= xl + cursor_offset(item) and 0 <= y <= h, and no unsigned
\* subtraction of the shape functions underflows (the result of every
\* subtraction of the arm taken is a coordinate of a vertex, or is followed
\* by a further subtraction whose result is one).
C26_ShapeInsideCell ==
    pc = "shaped" =>
        \A p \in 1..Len(polygons) : \A v \in 1..Len(polygons[p]) :
            /\ shape_args.xl <= polygons[p][v][1]
            /\ polygons[p][v][1] <= shape_args.xl + item_width
            /\ 0 <= polygons[p][v][2]
            /\ polygons[p][v][2] <= shape_args.h

\* The outlined Left octagon of the lowest bar, at the origin.
C26_Witness ==
    /\ pc = "shaped"
    /\ shape_args.h = 1
    /\ shape_args.xl = 0
    /\ shape_args.style = "Octagon"
    /\ shape_args.direction = "Left"
    /\ shape_args.fill = "No"
    /\ polygons[2] = << << 0, 0 >>, << 0, 1 >>, << 1, 1 >>, << 1, 0 >> >>

(***************************************************************************)
(* Claims about the request pipeline, checked under SpecPipeline.          *)
(***************************************************************************)
\* C24: a request rejected by the backend is propagated to the caller as a
\* structured error value; the process is not aborted and the request is
\* not retried.
C24_ErrorPropagated ==
    (\E k \in 1..Len(checked) : checked[k] \in backend_rejects) =>
        /\ pc # "panicked"
        /\ panic = ""

\* C29: pipeline_requests sends all requests of the batch, in slice order,
\* before checking any of them, then checks the cookies in the same order,
\* each paired with the request that produced it; the first failed check
\* aborts with that request's data and later cookies are not checked.
C29_PipelineOrder ==
    /\ requests = SubSeq(call.data, 1, Len(requests))
    /\ Len(cookies) = Len(requests)
    /\ \A k \in 1..Len(cookies) : cookies[k] = k
    /\ checked # << >> => Len(requests) = Len(call.data)
    /\ checked = SubSeq(cookies, 1, Len(checked))
    /\ \A k \in 1..(Len(checked) - 1) : checked[k] \notin backend_rejects
    /\ pc = "panicked" =>
           /\ checked # << >>
           /\ checked[Len(checked)] \in backend_rejects
           /\ failed = requests[checked[Len(checked)]]
    /\ pc = "returned" =>
           /\ Len(checked) = Len(call.data)
           /\ \A k \in 1..Len(checked) : checked[k] \notin backend_rejects
    /\ (pc = "pipelining" /\ checked # << >>) =>
           checked[Len(checked)] \notin backend_rejects

\* A batch of three whose second and third requests are rejected: all three
\* are sent, two cookies are checked, the panic shows the second element.
C29_Witness ==
    /\ pc = "panicked"
    /\ call.data = << "a", "b", "a" >>
    /\ backend_rejects = { 2, 3 }
    /\ requests = << "a", "b", "a" >>
    /\ checked = << 1, 2 >>
    /\ failed = "b"

(***************************************************************************)
(* Claims about the application loop, checked under SpecLoop and           *)
(* FairSpecLoop.                                                           *)
(***************************************************************************)
\* The calls of one redraw, in order
RedrawBatch ==
    << "clear_monitors" >> \o [k \in 1..DrawsPerRender |-> "draw"]
        \o << "present", "flush" >>

IsEventWait(entry) == entry = "next_x_event"

\* C22: every redraw batch is followed by a flush before the next event
\* wait: within one redraw the order is clear, then the draw calls, then
\* present, then flush, and no event wait begins between the first draw of
\* a batch and its flush.
C22_FlushBeforeWait ==
    /\ \A k \in 1..Len(history) :
           history[k] = (IF k <= Len(RedrawBatch) THEN RedrawBatch[k]
                         ELSE "next_x_event")
    /\ pc \in { "poll", "readable", "dispatch" } => Len(history) > Len(RedrawBatch)

\* The loop waits for an event after a complete redraw.
C22_Witness ==
    /\ pc = "readable"
    /\ history = RedrawBatch \o << "next_x_event" >>
    /\ redraw = FALSE

\* C23: redraws and event waits strictly alternate: between any two
\* consecutive redraws there is exactly one event wait, and between any two
\* consecutive event waits there is exactly one redraw.
C23_StrictAlternation ==
    Len(SelectSeq(history, IsEventWait)) <= 1

\* C30: next_x_event returns only an event obtained from poll_for_event: it
\* polls first, on an empty poll waits for the descriptor to become readable
\* and polls again; it never returns without an event, never drops a polled
\* event, and if an event is available it eventually returns (unless the
\* wait itself fails).
C30_Polled ==
    /\ arrived = delivered \o pending
    /\ pc = "dispatch" => delivered # << >>

C30_Step ==
    /\ delivered' # delivered =>
           /\ pc = "poll"
           /\ pending # << >>
           /\ delivered' = Append(delivered, Head(pending))
           /\ pc' = "dispatch"
    /\ (pc = "next_x_event" /\ pc' # pc) => pc' = "poll"
    /\ (pc = "poll" /\ pc' # pc) =>
           (IF pending = << >> THEN pc' = "readable" ELSE pc' = "dispatch")
    /\ (pc = "readable" /\ pc' # pc) =>
           \/ pc' = "poll" /\ pending # << >>
           \/ pc' = "panicked"

C30_NextXEvent ==
    /\ []C30_Polled
    /\ [][C30_Step]_vars
    /\ (pc \in { "poll", "readable" } /\ pending # << >>)
           ~> (pc = "dispatch" \/ pc = "panicked")

\* The second event arrived while the first was dispatched without a redraw;
\* next_x_event found the poll empty, waited, and returned it.
C30_Witness ==
    /\ pc = "dispatch"
    /\ arrived = << "Expose", "KeyPress" >>
    /\ delivered = << "Expose", "KeyPress" >>
    /\ pending = << >>
    /\ Len(SelectSeq(history, IsEventWait)) = 2

====
